---- MODULE Spec2Model ----
(***************************************************************************)
(* PokePrice: the retrieval-augmented chat handler.                        *)
(*                                                                         *)
(* Two versions of the POST handler live in the repository:                *)
(*   "part_001"  src/unnamed/part_001       (apology short-circuit,        *)
(*                                           markdown cleanup, k = 10)     *)
(*   "route"     src/app/api/chat/route.ts  (module-level embeddings,      *)
(*                                           separate database check)      *)
(* Each module owns its own BufferMemory, so a run of the model serves     *)
(* every request with one of the two handlers (variable handler).          *)
(*                                                                         *)
(* A request is a lightweight task: it runs from one await of an upstream  *)
(* call to the next without interruption, and requests interleave at       *)
(* those awaits.  One action models one such stretch of the handler.       *)
(*                                                                         *)
(* Text is a sequence of tokens (characters, or words such as "Bearer").   *)
(***************************************************************************)
EXTENDS Integers, Sequences, FiniteSets, TLC

VARIABLES handler,   \* which POST handler serves the requests
          env,       \* process.env: the set of variables that are set
          st,        \* per request: position, request, locals, response, calls
          memory,    \* the module-level BufferMemory: sequence of messages
          logs,      \* what console.log / console.error have written
          workload,  \* how the clients send: "concurrent", "sequential", ...
          page,      \* the state of the page component (Home)
          raw,       \* cleanup study: a raw completion text
          cleaned    \* cleanup study: the result of the cleanup, once run

vars == <<handler, env, st, memory, logs, workload, page, raw, cleaned>>

(***************************************************************************)
(* Bounds                                                                  *)
(***************************************************************************)
NReq == 2      \* requests of the concurrent workload
NSeq == 3      \* requests of the sequential workload
MaxDocs == 3   \* documents the vector store holds
MaxFrags == 5  \* fragments of a raw completion text
MaxSubmits == 2 \* questions the page submits

Req == DOMAIN st
Handlers == {"part_001", "route"}

Min(a, b) == IF a < b THEN a ELSE b

(***************************************************************************)
(* Text helpers                                                            *)
(***************************************************************************)
RECURSIVE Contains(_, _)
Contains(s, tok) ==
  IF s = <<>> THEN FALSE
  ELSE IF Head(s) = tok THEN TRUE ELSE Contains(Tail(s), tok)

\* String.prototype.startsWith('Bearer '), on tokens
StartsWithBearer(h) == Len(h) >= 2 /\ h[1] = "Bearer" /\ h[2] = " "

\* String.prototype.split(' '): the pieces between the spaces
RECURSIVE SplitSpace(_, _, _)
SplitSpace(s, cur, acc) ==
  IF s = <<>> THEN Append(acc, cur)
  ELSE IF Head(s) = " " THEN SplitSpace(Tail(s), <<>>, Append(acc, cur))
  ELSE SplitSpace(Tail(s), Append(cur, Head(s)), acc)

\* (a slice that forgets its end)
Slice_NoEnd(s, start, end) == SubSeq(s, start + 1, Len(s))

\* Array.prototype.slice(start, end)
Slice(s, start, end) == SubSeq(s, start + 1, Min(end, Len(s)))

\* Array.prototype.join(sep) over the documents' pageContent
RECURSIVE Join(_, _)
Join(docs, sep) ==
  IF docs = <<>> THEN <<>>
  ELSE IF Len(docs) = 1 THEN <<Head(docs)>>
  ELSE <<Head(docs)>> \o sep \o Join(Tail(docs), sep)

(***************************************************************************)
(* The markdown cleanup of generate (part_001, lines 166-170)              *)
(***************************************************************************)
\* .replace(/\*\*/g, ''): drop every pair of asterisks, scanning left to right
RECURSIVE RemoveBold(_)
RemoveBold(s) ==
  IF Len(s) >= 2 /\ s[1] = "*" /\ s[2] = "*" THEN RemoveBold(SubSeq(s, 3, Len(s)))
  ELSE IF s = <<>> THEN <<>>
  ELSE <<Head(s)>> \o RemoveBold(Tail(s))

\* .replace(/c/g, '') for a single character c
RECURSIVE RemoveChar(_, _)
RemoveChar(s, c) ==
  IF s = <<>> THEN <<>>
  ELSE IF Head(s) = c THEN RemoveChar(Tail(s), c)
  ELSE <<Head(s)>> \o RemoveChar(Tail(s), c)

\* the least index i >= from with s[i] = c, or 0
RECURSIVE FirstIndex(_, _, _)
FirstIndex(s, c, from) ==
  IF from > Len(s) THEN 0
  ELSE IF s[from] = c THEN from ELSE FirstIndex(s, c, from + 1)

\* /\[([^\]]+)\]\(([^)]+)\)/ anchored at index i: the index of the closing
\* parenthesis of the match, or 0.  The label runs to the first "]" after
\* the "[" and the url to the first ")" after the "(", both non-empty.
LinkEnd(s, i) ==
  IF i > Len(s) \/ s[i] # "[" THEN 0
  ELSE LET j == FirstIndex(s, "]", i + 1) IN
       IF j = 0 \/ j = i + 1 \/ j + 1 > Len(s) \/ s[j + 1] # "(" THEN 0
       ELSE LET k == FirstIndex(s, ")", j + 2) IN
            IF k = 0 \/ k = j + 2 THEN 0 ELSE k

\* .replace(/\[([^\]]+)\]\(([^)]+)\)/g, '$1: $2'): one left-to-right pass
\* over the non-overlapping matches
RECURSIVE ReplaceLinks(_, _)
ReplaceLinks(s, i) ==
  IF i > Len(s) THEN <<>>
  ELSE LET k == LinkEnd(s, i) IN
       IF k = 0 THEN <<s[i]>> \o ReplaceLinks(s, i + 1)
       ELSE LET j == FirstIndex(s, "]", i + 1) IN
            SubSeq(s, i + 1, j - 1) \o <<":", " ">> \o SubSeq(s, j + 2, k - 1)
              \o ReplaceLinks(s, k + 1)

\* the backtick character (the lexer does not take it inside a string)
BackTick == "bt"

cleanedResponse(content) ==
  ReplaceLinks(RemoveChar(RemoveChar(RemoveBold(content), "*"), BackTick), 1)

\* a markdown link [label](url) occurs somewhere in s
HasLink(s) == \E i \in 1..Len(s) : LinkEnd(s, i) # 0

(***************************************************************************)
(* Requests, responses, upstream outcomes                                  *)
(***************************************************************************)
NoHeader == <<>>     \* req.headers.get('authorization') is null

\* request r carries its own credential and its own question
KeyNames == <<"k1", "k2", "k3", "k4", "k5">>
QuestionNames == <<"q1", "q2", "q3", "q4", "q5">>
KeyOf(r) == KeyNames[r]

HeadersOf(r) == {NoHeader, <<"Basic", " ", KeyOf(r)>>, <<"Bearer", " ", KeyOf(r)>>}

NoBody == [kind |-> "none", hasQuestion |-> FALSE, question |-> <<>>]
BadJson == [kind |-> "badjson", hasQuestion |-> FALSE, question |-> <<>>]
JsonBody(has, q) == [kind |-> "json", hasQuestion |-> has, question |-> q]

BodiesOf(r) ==
  {NoBody, BadJson, JsonBody(FALSE, <<>>), JsonBody(TRUE, <<>>),
   JsonBody(TRUE, <<" ">>), JsonBody(TRUE, <<QuestionNames[r]>>)}

\* the well-formed requests: bearer header, a question that is not blank
ValidHeadersOf(r) == {<<"Bearer", " ", KeyOf(r)>>}
ValidBodiesOf(r) == {JsonBody(TRUE, <<QuestionNames[r]>>)}

(***************************************************************************)
(* The page (src/unnamed/part_002): handleSubmit up to its fetch           *)
(***************************************************************************)
\* what the visitor can have typed into the input
PageQuestions == {<<>>, <<" ">>, <<"q1">>, <<"q2">>}

NoFetch == [pending |-> FALSE, header |-> NoHeader, body |-> NoBody]

\* fetch('/api/chat', { method: 'POST', headers: { 'Content-Type':
\* 'application/json' }, body: JSON.stringify({ question }) }): the request
\* has no Authorization header
FetchRequest(q) == [pending |-> TRUE, header |-> NoHeader, body |-> JsonBody(TRUE, q)]

IdlePage ==
  [question |-> <<>>, messages |-> <<>>, loading |-> FALSE, sent |-> 0,
   fetch |-> NoFetch]

ChatMessage(role, content) == [role |-> role, content |-> content]

\* the workloads whose clients wait for a response before they send again
Serial == {"sequential", "replay"}

\* what the clients of a workload send: anything when concurrent, one
\* well-formed request after the other when sequential, the same question
\* again and again when replaying
\* (the page workload sends what the page's fetch has built)
HeadersSent(w, r) ==
  IF w \in Serial THEN ValidHeadersOf(r)
  ELSE IF w = "page" THEN {page.fetch.header}
  ELSE HeadersOf(r)
BodiesSent(w, r) ==
  IF w = "sequential" THEN ValidBodiesOf(r)
  ELSE IF w = "replay" THEN ValidBodiesOf(1)
  ELSE IF w = "page" THEN {page.fetch.body}
  ELSE BodiesOf(r)

\* String.prototype.trim() leaves nothing
IsBlank(q) == \A i \in 1..Len(q) : q[i] = " "

EnvNames == {"PG_HOST", "PG_PASSWORD", "OPENAI_API_KEY"}
\* (the process is configured fully, or lacks the database host)
Envs == {EnvNames, EnvNames \ {"PG_HOST"}}
EnvKey == <<"envkey">>     \* the value of process.env.OPENAI_API_KEY
PgKey == <<"pg">>          \* the database password of pgVectorStoreConfig

\* what the vector store can return: the first n documents of a ranking
\* (the store ranks document MaxDocs nearest, document 1 farthest)
Ranking == [i \in 1..MaxDocs |-> MaxDocs + 1 - i]
SearchResults(k) == {SubSeq(Ranking, 1, n) : n \in 0..Min(k, MaxDocs)}

\* raw completion texts the model can return
RawTexts ==
  {<<"*", "*", "a", "*", "*">>,
   <<"[", "P", "]", "(", "u", ")">>}

\* the messages of the errors an upstream call can throw
UpstreamErrors == {"connection refused", "timed out"}

\* the upstream call of a request that threw: the await it was at, its message
NoFailure == [at |-> "", message |-> ""]
Thrown(at, message) == [at |-> at, message |-> message]

\* how an awaited upstream call ends: it returns one of values, or throws
Outcomes(values) ==
  {[ok |-> TRUE, value |-> v, message |-> ""] : v \in values}
    \cup {[ok |-> FALSE, value |-> <<>>, message |-> m] : m \in UpstreamErrors}

Apology == <<"I apologize">>

NoResponse ==
  [status |-> 0, fields |-> {}, error |-> "", details |-> "",
   answer |-> <<>>, context |-> <<>>]

\* NextResponse.json({ error }, { status })
ErrorOnly(status, error) ==
  [status |-> status, fields |-> {"error"}, error |-> error, details |-> "",
   answer |-> <<>>, context |-> <<>>]

\* NextResponse.json({ error, details }, { status })
ErrorDetails(status, error, details) ==
  [status |-> status, fields |-> {"error", "details"}, error |-> error,
   details |-> details, answer |-> <<>>, context |-> <<>>]

\* the outer catch: { error, details, timestamp } with status 500
InternalServerError(message) ==
  [status |-> 500, fields |-> {"error", "details", "timestamp"},
   error |-> "Internal Server Error", details |-> message,
   answer |-> <<>>, context |-> <<>>]

\* NextResponse.json({ context: result.context.slice(0, 2), answer })
Success(context, answer) ==
  [status |-> 200, fields |-> {"context", "answer"}, error |-> "", details |-> "",
   answer |-> answer, context |-> Slice(context, 0, 2)]

Call(svc, key) == [svc |-> svc, key |-> key]
LogLine(label, text) == [label |-> label, text |-> text]
Message(role, content) == [role |-> role, content |-> content]

NoPrompt == [rendered |-> FALSE, chat_history |-> <<>>, context |-> <<>>, question |-> <<>>]

\* promptTemplate.invoke({ question, context, chat_history })
Render(question, docsContent, history) ==
  [rendered |-> TRUE, chat_history |-> history, context |-> docsContent,
   question |-> question]

\* (a memory that records the questions only)
SaveContext_QuestionOnly(mem, question, answer) ==
  Append(mem, Message("human", question))

\* (a memory that puts the newest turn first)
SaveContext_Prepend(mem, question, answer) ==
  <<Message("human", question), Message("ai", answer)>> \o mem

\* (a memory that keeps the last turn only)
SaveContext_LastOnly(mem, question, answer) ==
  <<Message("human", question), Message("ai", answer)>>

\* memory.saveContext({ question }, { answer }): a human and an ai message
SaveContext(mem, question, answer) ==
  mem \o <<Message("human", question), Message("ai", answer)>>

IdleRequest ==
  [pc |-> "idle", header |-> NoHeader, body |-> NoBody, apiKey |-> <<>>,
   retrieved |-> FALSE, context |-> <<>>, prompt |-> NoPrompt,
   content |-> <<>>, failure |-> NoFailure, resp |-> NoResponse, calls |-> <<>>]

(***************************************************************************)
(* The parts the two handlers share                                        *)
(***************************************************************************)
SearchK == 10

Upstream == {"initialize", "embedQuery", "similaritySearch", "chat.invoke"}
MemoryOps == {"memory.load", "memory.save"}

\* (a credential check that forgets the scheme)
AuthOk_AnyScheme(h) == h # NoHeader

\* !authHeader || !authHeader.startsWith('Bearer ') is false
AuthOk(h) == h # NoHeader /\ StartsWithBearer(h)

\* authHeader.split(' ')[1]
ApiKeyOf(h) == SplitSpace(h, <<>>, <<>>)[2]

\* body?.question is truthy: present and not the empty string
QuestionTruthy(b) == b.hasQuestion /\ b.question # <<>>

\* the body and environment checks: the response they return, or NoResponse
\* when the request passes them
Validation(b, required, e) ==
  IF b.kind = "none"
    THEN ErrorDetails(400, "Request body is required", "No request body found")
  ELSE IF b.kind = "badjson"
    THEN ErrorDetails(400, "Invalid JSON", "Could not parse request body")
  ELSE IF ~QuestionTruthy(b)
    THEN ErrorDetails(400, "Question is required", "No question provided in request")
  ELSE IF required \ e # {}
    THEN ErrorDetails(500, "Configuration Error", "Missing environment variables")
  ELSE NoResponse

\* what the checks write to the console
ValidationLogs(b, required, e) ==
  IF b.kind = "none" THEN {}
  ELSE IF b.kind = "badjson" THEN {LogLine("Error parsing request body", <<>>)}
  ELSE {LogLine("Parsed request body", b.question)}
         \cup (IF QuestionTruthy(b) /\ required \ e # {}
                 THEN {LogLine("Missing environment variables", <<>>)} ELSE {})

\* console.log('Received request:', { method, headers: all the headers })
ReceivedLog(h) == LogLine("Received request", h)

\* (an outer catch that hides the upstream message)
Caught_NoDetails(s, message) ==
  [s |-> [s EXCEPT !.pc = "done", !.resp = ErrorOnly(500, "Internal Server Error")],
   log |-> {LogLine("Detailed API Error", <<>>)}]

\* the outer catch of POST
Caught(s, message) ==
  [s |-> [s EXCEPT !.pc = "done", !.resp = InternalServerError(message)],
   log |-> {LogLine("Detailed API Error", <<>>)}]

\* the awaited upstream call of s threw
Failed(s, message) == [s EXCEPT !.failure = Thrown(s.pc, message)]

Returned(s, resp, log) == [s |-> [s EXCEPT !.pc = "done", !.resp = resp], log |-> log]

\* (an await that issues its calls twice)
Awaiting_Twice(s, pc, calls, log) ==
  [s |-> [s EXCEPT !.pc = pc, !.calls = s.calls \o calls \o calls], log |-> log]

Awaiting(s, pc, calls, log) ==
  [s |-> [s EXCEPT !.pc = pc, !.calls = s.calls \o calls], log |-> log]

(***************************************************************************)
(* POST of src/unnamed/part_001, one operator per stretch between awaits   *)
(***************************************************************************)
P001Required == {"PG_HOST", "PG_PASSWORD"}

\* lines 46-62: the credential check, the clients, PGVectorStore.initialize
P001_Begin(s, h, b) ==
  LET s1 == [s EXCEPT !.header = h, !.body = b] IN
  IF ~AuthOk(h) THEN Returned(s1, ErrorOnly(401, "Missing or invalid API key"), {})
  ELSE Awaiting([s1 EXCEPT !.apiKey = ApiKeyOf(h)], "init",
                <<Call("initialize", PgKey)>>, {})

\* lines 62-126: after initialize; the log, the checks, the graph's start
\* up to the similarity search of retrieve
P001_AfterInit(s, e, ok, message) ==
  IF ~ok THEN Caught(Failed(s, message), message)
  ELSE LET v == Validation(s.body, P001Required, e)
           l == {ReceivedLog(s.header)} \cup ValidationLogs(s.body, P001Required, e)
       IN IF v # NoResponse THEN Returned(s, v, l)
          ELSE Awaiting(s, "search",
                 <<Call("memory.load", <<>>), Call("embedQuery", s.apiKey),
                   Call("similaritySearch", PgKey)>>,
                 l \cup {LogLine("Invoking graph with question", s.body.question)})

\* lines 123-163: after the search; the end of retrieve and generate up to
\* the completion call
P001_AfterSearch(s, mem, ok, docs, message) ==
  IF ~ok THEN Caught(Failed(s, message), message)
  ELSE LET s1 == [s EXCEPT !.retrieved = TRUE, !.context = docs] IN
       IF Len(docs) = 0 THEN Returned(s1, Success(docs, Apology), {})
       ELSE Awaiting([s1 EXCEPT !.prompt =
                        Render(s.body.question, Join(docs, <<"\n\n">>), mem)],
                     "chat",
                     <<Call("memory.load", <<>>), Call("chat.invoke", s.apiKey)>>, {})

\* (a generate that saves the raw completion text)
P001_AfterChat_SaveRaw(s, mem, ok, content, message) ==
  IF ~ok THEN Caught(Failed(s, message), message) @@ [mem |-> mem]
  ELSE LET answer == cleanedResponse(content) IN
       Returned([s EXCEPT !.content = content,
                          !.calls = Append(@, Call("memory.save", <<>>))],
                Success(s.context, answer), {})
         @@ [mem |-> SaveContext(mem, s.body.question, content)]

\* (a generate whose answer repeats itself once there is a history)
P001_AfterChat_WithHistory(s, mem, ok, content, message) ==
  IF ~ok THEN Caught(Failed(s, message), message) @@ [mem |-> mem]
  ELSE LET answer == cleanedResponse(content)
                       \o (IF mem = <<>> THEN <<>> ELSE <<"(as said)">>) IN
       Returned([s EXCEPT !.content = content,
                          !.calls = Append(@, Call("memory.save", <<>>))],
                Success(s.context, answer), {})
         @@ [mem |-> SaveContext(mem, s.body.question, answer)]

\* lines 163-199: after the completion; the cleanup, the save, the response
P001_AfterChat(s, mem, ok, content, message) ==
  IF ~ok THEN Caught(Failed(s, message), message) @@ [mem |-> mem]
  ELSE LET answer == cleanedResponse(content) IN
       Returned([s EXCEPT !.content = content,
                          !.calls = Append(@, Call("memory.save", <<>>))],
                Success(s.context, answer), {})
         @@ [mem |-> SaveContext(mem, s.body.question, answer)]

(***************************************************************************)
(* POST of src/app/api/chat/route.ts                                       *)
(***************************************************************************)
RouteRequired == {"PG_HOST", "PG_PASSWORD", "OPENAI_API_KEY"}

\* lines 55-122: the credential check, the log, the checks, the first
\* PGVectorStore.initialize
Route_Begin(s, e, h, b) ==
  LET s1 == [s EXCEPT !.header = h, !.body = b] IN
  IF ~AuthOk(h) THEN Returned(s1, ErrorOnly(401, "Missing or invalid API key"), {})
  ELSE LET s2 == [s1 EXCEPT !.apiKey = ApiKeyOf(h)]
           v == Validation(b, RouteRequired, e)
           l == {ReceivedLog(h)} \cup ValidationLogs(b, RouteRequired, e)
       IN IF v # NoResponse THEN Returned(s2, v, l)
          ELSE Awaiting(s2, "init", <<Call("initialize", PgKey)>>, l)

\* lines 121-134: after the database check; the start of the graph up to
\* the initialize of retrieve
Route_AfterInit(s, ok, message) ==
  IF ~ok THEN Returned(Failed(s, message),
                       ErrorDetails(500, "Database connection failed", message),
                       {LogLine("Database connection error", <<>>)})
  ELSE Awaiting(s, "init2",
                <<Call("memory.load", <<>>), Call("initialize", PgKey)>>,
                {LogLine("Invoking graph with question", s.body.question)})

\* lines 134-135: after the initialize of retrieve; the similarity search,
\* whose query is embedded by the module-level embeddings
Route_AfterInit2(s, ok, message) ==
  IF ~ok THEN Caught(Failed(s, message), message)
  ELSE Awaiting(s, "search",
                <<Call("embedQuery", EnvKey), Call("similaritySearch", PgKey)>>, {})

\* lines 135-154: after the search; generate up to the completion call
Route_AfterSearch(s, mem, ok, docs, message) ==
  IF ~ok THEN Caught(Failed(s, message), message)
  ELSE Awaiting([s EXCEPT !.retrieved = TRUE, !.context = docs,
                          !.prompt = Render(s.body.question, Join(docs, <<"\n">>), mem)],
                "chat",
                <<Call("memory.load", <<>>), Call("chat.invoke", s.apiKey)>>, {})

\* lines 154-182: after the completion; the save and the response
Route_AfterChat(s, mem, ok, content, message) ==
  IF ~ok THEN Caught(Failed(s, message), message) @@ [mem |-> mem]
  ELSE Returned([s EXCEPT !.content = content,
                          !.calls = Append(@, Call("memory.save", <<>>))],
                Success(s.context, content), {})
         @@ [mem |-> SaveContext(mem, s.body.question, content)]

(***************************************************************************)
(* The state machine                                                       *)
(***************************************************************************)
NotCleaned == [ran |-> FALSE, text |-> <<>>]

Init ==
  /\ handler \in Handlers
  /\ env \in Envs
  /\ st = [r \in 1..NReq |-> IdleRequest]
  /\ memory = <<>>
  /\ logs = {}
  /\ workload = "concurrent"
  /\ page = IdlePage
  /\ raw = <<>>
  /\ cleaned = NotCleaned

\* a stretch of request r that leaves Conversation Memory alone
Step(r, out) ==
  /\ st' = [st EXCEPT ![r] = out.s]
  /\ logs' = logs \cup out.log
  /\ UNCHANGED <<handler, env, memory, workload, page, raw, cleaned>>

\* a stretch of request r that may save to Conversation Memory
StepMem(r, out) ==
  /\ st' = [st EXCEPT ![r] = out.s]
  /\ logs' = logs \cup out.log
  /\ memory' = out.mem
  /\ UNCHANGED <<handler, env, workload, page, raw, cleaned>>

Done(r) == st[r].pc = "done"

\* request r arrives (requests are numbered in their order of arrival)
Arrives(r) ==
  /\ st[r].pc = "idle"
  /\ \A r2 \in Req : r2 < r => st[r2].pc # "idle"
  /\ workload \in Serial => \A r2 \in Req : r2 < r => Done(r2)
  /\ workload = "page" => (page.fetch.pending /\ r = page.sent)

P001Begin(r) ==
  /\ handler = "part_001"
  /\ Arrives(r)
  /\ \E h \in HeadersSent(workload, r), b \in BodiesSent(workload, r) :
       Step(r, P001_Begin(st[r], h, b))

P001InitDone(r) ==
  /\ handler = "part_001"
  /\ st[r].pc = "init"
  /\ \E o \in Outcomes({<<>>}) : Step(r, P001_AfterInit(st[r], env, o.ok, o.message))

P001SearchDone(r) ==
  /\ handler = "part_001"
  /\ st[r].pc = "search"
  /\ \E o \in Outcomes(SearchResults(SearchK)) :
       Step(r, P001_AfterSearch(st[r], memory, o.ok, o.value, o.message))

P001ChatDone(r) ==
  /\ handler = "part_001"
  /\ st[r].pc = "chat"
  /\ \E o \in Outcomes(RawTexts) :
       StepMem(r, P001_AfterChat(st[r], memory, o.ok, o.value, o.message))

RouteBegin(r) ==
  /\ handler = "route"
  /\ Arrives(r)
  /\ \E h \in HeadersSent(workload, r), b \in BodiesSent(workload, r) :
       Step(r, Route_Begin(st[r], env, h, b))

RouteInitDone(r) ==
  /\ handler = "route"
  /\ st[r].pc = "init"
  /\ \E o \in Outcomes({<<>>}) : Step(r, Route_AfterInit(st[r], o.ok, o.message))

RouteInit2Done(r) ==
  /\ handler = "route"
  /\ st[r].pc = "init2"
  /\ \E o \in Outcomes({<<>>}) : Step(r, Route_AfterInit2(st[r], o.ok, o.message))

RouteSearchDone(r) ==
  /\ handler = "route"
  /\ st[r].pc = "search"
  /\ \E o \in Outcomes(SearchResults(MaxDocs)) :
       Step(r, Route_AfterSearch(st[r], memory, o.ok, o.value, o.message))

RouteChatDone(r) ==
  /\ handler = "route"
  /\ st[r].pc = "chat"
  /\ \E o \in Outcomes(RawTexts) :
       StepMem(r, Route_AfterChat(st[r], memory, o.ok, o.value, o.message))

Next ==
  \E r \in Req :
    \/ P001Begin(r)
    \/ P001InitDone(r)
    \/ P001SearchDone(r)
    \/ P001ChatDone(r)
    \/ RouteBegin(r)
    \/ RouteInitDone(r)
    \/ RouteInit2Done(r)
    \/ RouteSearchDone(r)
    \/ RouteChatDone(r)

Spec == Init /\ [][Next]_vars

\* the sequential workload: well-formed requests, each sent after the
\* response to the one before, with the environment fully configured
InitSeq ==
  /\ handler \in Handlers
  /\ env = EnvNames
  /\ st = [r \in 1..NSeq |-> IdleRequest]
  /\ memory = <<>>
  /\ logs = {}
  /\ workload = "sequential"
  /\ page = IdlePage
  /\ raw = <<>>
  /\ cleaned = NotCleaned

SpecSeq == InitSeq /\ [][Next]_vars

\* the replay workload: one question asked again after every response
InitReplay ==
  /\ handler \in Handlers
  /\ env = EnvNames
  /\ st = [r \in 1..NSeq |-> IdleRequest]
  /\ memory = <<>>
  /\ logs = {}
  /\ workload = "replay"
  /\ page = IdlePage
  /\ raw = <<>>
  /\ cleaned = NotCleaned

SpecReplay == InitReplay /\ [][Next]_vars

(***************************************************************************)
(* The cleanup on its own: a raw completion text is put together from      *)
(* fragments, then cleaned                                                 *)
(***************************************************************************)
Fragments ==
  {<<"[", "a", "]">>, <<"(", "u", ")">>, <<"(">>, <<")">>, <<"*">>, <<BackTick>>}

RECURSIVE Flatten(_)
Flatten(fs) == IF fs = <<>> THEN <<>> ELSE Head(fs) \o Flatten(Tail(fs))

InitClean ==
  /\ handler = "part_001"
  /\ env = EnvNames
  /\ st = [r \in 1..NReq |-> IdleRequest]
  /\ memory = <<>>
  /\ logs = {}
  /\ workload = "concurrent"
  /\ page = IdlePage
  /\ raw = <<>>
  /\ cleaned = NotCleaned

\* the model emits one more fragment of its answer
Emit ==
  /\ ~cleaned.ran
  /\ Len(raw) < MaxFrags
  /\ \E f \in Fragments : raw' = Append(raw, f)
  /\ UNCHANGED <<handler, env, st, memory, logs, workload, page, cleaned>>

\* generate cleans the completed answer
Cleanup ==
  /\ ~cleaned.ran
  /\ cleaned' = [ran |-> TRUE, text |-> cleanedResponse(Flatten(raw))]
  /\ UNCHANGED <<handler, env, st, memory, logs, workload, page, raw>>

NextClean == Emit \/ Cleanup

SpecClean == InitClean /\ [][NextClean]_vars

(***************************************************************************)
(* Properties                                                              *)
(***************************************************************************)
Services(r) == {st[r].calls[i].svc : i \in DOMAIN st[r].calls}
Status(r) == st[r].resp.status
Fields(r) == st[r].resp.fields

\* the Authorization header of r is present and starts with "Bearer "
HasBearer(r) ==
  /\ st[r].header # NoHeader
  /\ Len(st[r].header) >= 2
  /\ SubSeq(st[r].header, 1, 2) = <<"Bearer", " ">>

\* the credential r's header carries after "Bearer "
Credential(r) == SubSeq(st[r].header, 3, Len(st[r].header))

\* C1: a request whose Authorization header is absent or does not start
\* with "Bearer " is answered 401 with an error field at once: it makes no
\* upstream call and no call to Conversation Memory.
C1_Unauthorized ==
  \A r \in Req :
    (st[r].pc # "idle" /\ ~HasBearer(r)) =>
      /\ Done(r)
      /\ Status(r) = 401
      /\ "error" \in Fields(r)
      /\ st[r].calls = <<>>

C1_Witness ==
  \E r \in Req :
    /\ Done(r)
    /\ st[r].header = <<"Basic", " ", KeyOf(r)>>
    /\ Status(r) = 401

\* C2: whenever retrieval returned no document, the Completion Client is
\* not invoked for the request and its answer is the fixed apology.
C2_EmptyRetrievalApology ==
  \A r \in Req :
    (st[r].retrieved /\ st[r].context = <<>>) =>
      /\ "chat.invoke" \notin Services(r)
      /\ Done(r) => (Status(r) = 200 /\ st[r].resp.answer = Apology)

\* C3: an authenticated request whose question is empty or only whitespace
\* makes no upstream call and is answered 400.
C3_BlankQuestionRejected ==
  \A r \in Req :
    (/\ st[r].pc # "idle" /\ HasBearer(r)
     /\ st[r].body.kind = "json" /\ st[r].body.hasQuestion
     /\ IsBlank(st[r].body.question)) =>
      /\ Services(r) \cap Upstream = {}
      /\ Done(r) => Status(r) = 400

\* C4: an authenticated request without a body, with a body that is not
\* JSON, or without a question field makes no upstream call and is
\* answered 400, whatever the upstream services do.
C4_BadBodyRejected ==
  \A r \in Req :
    (/\ st[r].pc # "idle" /\ HasBearer(r)
     /\ \/ st[r].body.kind \in {"none", "badjson"}
        \/ ~st[r].body.hasQuestion) =>
      /\ Services(r) \cap Upstream = {}
      /\ Done(r) => Status(r) = 400

\* C5: when retrieval returned N > 0 documents and the request is answered
\* 200, the response's context is the first min(N, 2) of them in order.
C5_ContextPreview ==
  \A r \in Req :
    (Done(r) /\ Status(r) = 200 /\ Len(st[r].context) > 0) =>
      /\ Len(st[r].resp.context) = Min(Len(st[r].context), 2)
      /\ \A i \in 1..Len(st[r].resp.context) :
           st[r].resp.context[i] = st[r].context[i]

C5_Witness ==
  \E r \in Req :
    /\ Done(r) /\ Status(r) = 200
    /\ Len(st[r].context) = 3
    /\ st[r].resp.context = <<st[r].context[1], st[r].context[2]>>

\* r passes the handler's checks: bearer header, a question that is not the
\* empty string, the environment the handler requires
Required == IF handler = "route" THEN RouteRequired ELSE P001Required
PassesChecks(r) ==
  /\ HasBearer(r)
  /\ st[r].body.kind = "json" /\ st[r].body.hasQuestion /\ st[r].body.question # <<>>
  /\ Required \subseteq env

\* an upstream call of r threw, and r has been answered
FailedUpstream(r) == Done(r) /\ st[r].failure # NoFailure

\* the body of a 500 that reports an upstream failure, and nothing issued
\* after the call that threw
ReportsFailure(r) ==
  /\ Status(r) = 500
  /\ {"error", "details"} \subseteq Fields(r)
  /\ st[r].resp.details = st[r].failure.message
  /\ "answer" \notin Fields(r)
  /\ st[r].calls # <<>>
  /\ st[r].calls[Len(st[r].calls)].svc =
       (IF st[r].failure.at \in {"init", "init2"} THEN "initialize"
        ELSE IF st[r].failure.at = "search" THEN "similaritySearch"
        ELSE "chat.invoke")

\* C6 as stated: a failure of the vector store or of the Completion Client
\* in a request that passes the checks is answered 500 with error, details
\* (the upstream message) and timestamp, without an answer and without a
\* retry of the failed call.
C6_Original ==
  \A r \in Req :
    (FailedUpstream(r) /\ PassesChecks(r)) =>
      (ReportsFailure(r) /\ "timestamp" \in Fields(r))

\* C6, amended: as stated, except that the body has no timestamp when the
\* call that failed is the database check of route.ts (lines 121-130),
\* which answers { error, details } itself; every other failure has it.
C6_UpstreamFailure ==
  \A r \in Req :
    (FailedUpstream(r) /\ PassesChecks(r)) =>
      /\ ReportsFailure(r)
      /\ "timestamp" \in Fields(r) <=>
           ~(handler = "route" /\ st[r].failure.at = "init")

C6_Witness ==
  \E r \in Req :
    /\ FailedUpstream(r) /\ PassesChecks(r)
    /\ st[r].failure.at = "chat"
    /\ Status(r) = 500
    /\ st[r].resp.details = "timed out"

\* C7: no log record and nothing in Conversation Memory contains the
\* bearer credential of a request.
C7_CredentialNotLogged ==
  \A r \in Req :
    /\ \A l \in logs : ~Contains(l.text, KeyOf(r))
    /\ \A i \in DOMAIN memory : ~Contains(memory[i].content, KeyOf(r))

\* C8: every embedding call and every completion call of a request carries
\* the credential of that request's Authorization header.
C8_ForwardedCredential ==
  \A r \in Req :
    \A i \in DOMAIN st[r].calls :
      st[r].calls[i].svc \in {"embedQuery", "chat.invoke"} =>
        st[r].calls[i].key = Credential(r)

\* the turn of request r: its question, then the answer it returned
InHistoryBefore(h, r1, r2) ==
  \E i, j \in DOMAIN h :
    /\ i + 1 < j /\ j + 1 <= Len(h)
    /\ h[i] = Message("human", st[r1].body.question)
    /\ h[i + 1] = Message("ai", st[r1].resp.answer)
    /\ h[j] = Message("human", st[r2].body.question)
    /\ h[j + 1] = Message("ai", st[r2].resp.answer)

\* r was answered 200 with an answer the Completion Client generated
Generated(r) == Done(r) /\ Status(r) = 200 /\ "chat.invoke" \in Services(r)

\* C9 as stated: after two sequential requests answered 200, the history of
\* the prompt rendered for a later request holds both turns, in order.
C9_Original ==
  \A r1, r2, r3 \in Req :
    (/\ r1 < r2 /\ r2 < r3
     /\ Done(r1) /\ Status(r1) = 200
     /\ Done(r2) /\ Status(r2) = 200
     /\ st[r3].prompt.rendered) =>
      InHistoryBefore(st[r3].prompt.chat_history, r1, r2)

\* C9, amended: after two sequential requests whose answers the Completion
\* Client generated (not the fixed apology), the history of the prompt
\* rendered for a later request holds both turns, the first before the
\* second.
C9_MemoryAccumulates ==
  \A r1, r2, r3 \in Req :
    (/\ r1 < r2 /\ r2 < r3
     /\ Generated(r1) /\ Generated(r2)
     /\ st[r3].prompt.rendered) =>
      InHistoryBefore(st[r3].prompt.chat_history, r1, r2)

C9_Witness ==
  /\ Generated(1) /\ Generated(2)
  /\ st[3].prompt.rendered
  /\ Len(st[3].prompt.chat_history) = 4

\* C10: the cleaned answer holds no asterisk, no backtick and no markdown
\* link [label](url).
C10_NoMarkup ==
  cleaned.ran =>
    /\ ~Contains(cleaned.text, "*")
    /\ ~Contains(cleaned.text, BackTick)
    /\ ~HasLink(cleaned.text)


\* t occurs in s as a run of consecutive tokens
ContainsRun(s, t) ==
  \E i \in 0..(Len(s) - Len(t)) : SubSeq(s, i + 1, i + Len(t)) = t

\* the label and the url of the link of s that starts at i
LinkLabel(s, i) == SubSeq(s, i + 1, FirstIndex(s, "]", i + 1) - 1)
LinkUrl(s, i) == SubSeq(s, FirstIndex(s, "]", i + 1) + 2, LinkEnd(s, i) - 1)

\* C11: for every markdown link [label](url) of the raw completion text,
\* the cleaned answer contains "label: url", label and url unchanged.
C11_LinksPreserved ==
  cleaned.ran =>
    \A i \in 1..Len(Flatten(raw)) :
      LinkEnd(Flatten(raw), i) # 0 =>
        ContainsRun(cleaned.text,
                    LinkLabel(Flatten(raw), i) \o <<":", " ">> \o LinkUrl(Flatten(raw), i))


\* C12: two replays of one question that retrieve the same documents and
\* get the same completion text from the stub return the same answer,
\* whatever Conversation Memory holds by then.
C12_ReplayIdempotent ==
  \A r1, r2 \in Req :
    (/\ Done(r1) /\ Status(r1) = 200
     /\ Done(r2) /\ Status(r2) = 200
     /\ st[r1].body.question = st[r2].body.question
     /\ st[r1].context = st[r2].context
     /\ st[r1].content = st[r2].content) =>
      st[r1].resp.answer = st[r2].resp.answer

C12_Witness ==
  \E r1, r2 \in Req :
    /\ r1 < r2
    /\ Generated(r1) /\ Generated(r2)
    /\ st[r1].body.question = st[r2].body.question
    /\ st[r1].context = st[r2].context
    /\ st[r1].content = st[r2].content
    /\ st[r1].prompt.chat_history = <<>>
    /\ st[r2].prompt.chat_history # <<>>
    /\ st[r1].resp.answer = st[r2].resp.answer


IsPrefix(s, t) == Len(s) <= Len(t) /\ SubSeq(t, 1, Len(s)) = s

\* C13: Conversation Memory is append-only: in every step the transcript
\* before is a prefix of the transcript after; and a prompt rendered while
\* no turn has been saved gets the empty history.
C13_AppendOnly ==
  [][/\ IsPrefix(memory, memory')
     /\ \A r \in Req :
          (~st[r].prompt.rendered /\ st'[r].prompt.rendered /\ memory = <<>>) =>
            st'[r].prompt.chat_history = <<>>]_vars

C13_Witness ==
  /\ Len(memory) = 4
  /\ \E r \in Req : st[r].prompt.rendered /\ st[r].prompt.chat_history = <<>>
  /\ \E r \in Req : st[r].prompt.rendered /\ Len(st[r].prompt.chat_history) = 2


\* the turn request r saves: its question, then the answer it returned
Turn(r) ==
  <<Message("human", st[r].body.question), Message("ai", st[r].resp.answer)>>

\* the history of r's prompt holds nothing request r2 asked
Unaware(r, r2) ==
  /\ st[r].prompt.rendered
  /\ \A i \in DOMAIN st[r].prompt.chat_history :
       st[r].prompt.chat_history[i] # Message("human", st[r2].body.question)

\* C14: when two requests have each rendered their prompt without the
\* other's turn (both loaded the history before either saved) and both
\* generations have completed, Memory holds both turns.  The witness is the
\* interleaving in which the request that arrived second completes first:
\* its turn then precedes the turn of the request that arrived first.
C14_BothTurnsKept ==
  \A r1, r2 \in Req :
    (/\ r1 # r2
     /\ Generated(r1) /\ Generated(r2)
     /\ Unaware(r1, r2) /\ Unaware(r2, r1)) =>
      \E i, j \in DOMAIN memory :
        /\ i # j /\ i < Len(memory) /\ j < Len(memory)
        /\ SubSeq(memory, i, i + 1) = Turn(r1)
        /\ SubSeq(memory, j, j + 1) = Turn(r2)

C14_Witness ==
  /\ Generated(1) /\ Generated(2)
  /\ st[1].body.question = <<"q1">> /\ st[2].body.question = <<"q2">>
  /\ st[1].prompt.chat_history = <<>> /\ st[2].prompt.chat_history = <<>>
  /\ memory = Turn(2) \o Turn(1)


\* how often r has called svc, and where in r's calls svc comes first
Count(r, svc) == Cardinality({i \in DOMAIN st[r].calls : st[r].calls[i].svc = svc})
FirstCall(r, svc) ==
  IF svc \in Services(r)
    THEN CHOOSE i \in DOMAIN st[r].calls :
           /\ st[r].calls[i].svc = svc
           /\ \A j \in 1..(i - 1) : st[r].calls[j].svc # svc
    ELSE 0

\* generate has run to its end for r: the apology on an empty context, or
\* the completion followed by the save
GenerateFinished(r) ==
  /\ st[r].retrieved
  /\ IF "chat.invoke" \in Services(r)
       THEN st[r].calls[Len(st[r].calls)].svc = "memory.save"
       ELSE st[r].context = <<>> /\ st[r].resp.answer = Apology

\* the completion is invoked at most once, after the search has returned
\* and its result is stored as context
CompletionAfterSearch(r) ==
  /\ Count(r, "chat.invoke") <= 1
  /\ "chat.invoke" \in Services(r) =>
       /\ st[r].retrieved
       /\ 0 < FirstCall(r, "similaritySearch")
       /\ FirstCall(r, "similaritySearch") < FirstCall(r, "chat.invoke")

\* C15 as stated: every request that passes validation issues the similarity
\* search exactly once, invokes the completion at most once and after the
\* search, and is answered only after generate has finished.
C15_Original ==
  \A r \in Req :
    (PassesChecks(r) /\ Done(r)) =>
      /\ Count(r, "similaritySearch") = 1
      /\ CompletionAfterSearch(r)
      /\ GenerateFinished(r)

\* C15, amended: the stages run in the fixed order as far as the upstream
\* calls succeed.  The search is issued at most once, and exactly once
\* unless the vector store initialisation fails; the completion is invoked
\* at most once and after the search result is stored; nothing is answered
\* before the request has ended, and 200 only after generate has finished.
C15_StageOrder ==
  \A r \in Req :
    PassesChecks(r) =>
      /\ Count(r, "similaritySearch") <= 1
      /\ (\/ st[r].pc \in {"search", "chat"}
          \/ Done(r) /\ st[r].failure.at \notin {"init", "init2"}) =>
           Count(r, "similaritySearch") = 1
      /\ st[r].pc = "chat" => st[r].retrieved
      /\ CompletionAfterSearch(r)
      /\ st[r].resp # NoResponse => Done(r)
      /\ Status(r) = 200 => GenerateFinished(r)

C15_Witness ==
  \E r \in Req :
    /\ PassesChecks(r) /\ Generated(r)
    /\ Count(r, "similaritySearch") = 1 /\ Count(r, "chat.invoke") = 1
    /\ FirstCall(r, "similaritySearch") < FirstCall(r, "chat.invoke")
    /\ st[r].calls[Len(st[r].calls)].svc = "memory.save"


\* C16: Conversation Memory changes only when a completion succeeds.  The
\* step that ends a request whose completion succeeded appends one turn:
\* the request's question and the answer it returns (in part_001 the
\* cleaned one); a step that ends a request with 401, 400, 500 or the
\* apology, and every other step, leaves Memory as it is.
C16_MemoryFrame ==
  [][/\ memory' # memory =>
          \E r \in Req : st[r].pc = "chat" /\ st'[r].pc = "done" /\ st'[r].resp.status = 200
     /\ \A r \in Req :
          (st[r].pc # "done" /\ st'[r].pc = "done") =>
            IF st[r].pc = "chat" /\ st'[r].resp.status = 200
              THEN /\ memory' = memory \o
                        <<Message("human", st'[r].body.question),
                          Message("ai", st'[r].resp.answer)>>
                   /\ handler = "part_001" =>
                        /\ ~Contains(st'[r].resp.answer, "*")
                        /\ ~Contains(st'[r].resp.answer, BackTick)
              ELSE /\ memory' = memory
                   /\ st'[r].resp.status \in {400, 401, 500}
                        \/ st'[r].resp.answer = Apology]_vars

C16_Witness ==
  \E r1, r2 \in Req :
    /\ Generated(r1)
    /\ Done(r2) /\ Status(r2) = 500 /\ st[r2].failure.at = "chat"
    /\ memory = Turn(r1)


(***************************************************************************)
(* The page (src/unnamed/part_002): handleSubmit and its two workloads     *)
(***************************************************************************)
\* what a settled fetch hands to handleSubmit
FetchOutcome(threw, ok, statusText, contentJson, parses, text, error, details, answer) ==
  [threw |-> threw, ok |-> ok, statusText |-> statusText,
   contentJson |-> contentJson, parses |-> parses, text |-> text,
   data |-> [error |-> error, details |-> details, answer |-> answer]]

\* every way the fetch of the page can settle
FetchOutcomes ==
  { FetchOutcome(TRUE, FALSE, "", FALSE, FALSE, "", "", "", <<>>),
    FetchOutcome(FALSE, TRUE, "OK", TRUE, TRUE, "", "", "", <<"a1">>),
    FetchOutcome(FALSE, TRUE, "OK", TRUE, TRUE, "", "failed", "", <<>>),
    FetchOutcome(FALSE, TRUE, "OK", TRUE, FALSE, "<html>", "", "", <<>>),
    FetchOutcome(FALSE, TRUE, "OK", FALSE, FALSE, "<html>", "", "", <<>>),
    FetchOutcome(FALSE, FALSE, "Unauthorized", TRUE, TRUE, "", "Unauthorized", "", <<>>),
    FetchOutcome(FALSE, FALSE, "Internal Server Error", TRUE, TRUE, "",
                 "Internal Server Error", "boom", <<>>),
    FetchOutcome(FALSE, FALSE, "Bad Gateway", FALSE, FALSE, "<html>", "", "", <<>>),
    FetchOutcome(FALSE, FALSE, "Bad Gateway", FALSE, FALSE, "", "", "", <<>>) }

\* response.statusText of the handler's statuses
StatusText(status) ==
  CASE status = 200 -> "OK"
    [] status = 400 -> "Bad Request"
    [] status = 401 -> "Unauthorized"
    [] OTHER -> "Internal Server Error"

\* the fetch outcome of a response of the handler (NextResponse.json)
OutcomeOf(resp) ==
  FetchOutcome(FALSE, resp.status \in 200..299, StatusText(resp.status), TRUE, TRUE, "",
               resp.error, resp.details, resp.answer)

NotThrown == [thrown |-> FALSE, message |-> ""]
Error(message) == [thrown |-> TRUE, message |-> message]

\* the try block after the fetch: what it throws, if it throws
TryBlock(o) ==
  IF o.threw THEN Error("Failed to fetch")
  ELSE IF ~o.ok
    THEN LET errorData == IF o.parses THEN o.data ELSE [details |-> o.text]
         IN  Error(IF errorData.details # "" THEN errorData.details ELSE o.statusText)
  ELSE IF ~o.contentJson THEN Error("Expected JSON response but got")
  ELSE IF ~o.parses THEN Error("Unexpected token")
  ELSE IF o.data.error # "" THEN Error(o.data.error)
  ELSE NotThrown

\* (a page without the finally: a thrown error leaves loading set)
handleSubmit_Settle_NoFinally(p, o) ==
  LET e == TryBlock(o)
  IN  IF e.thrown
        THEN [p EXCEPT !.messages = Append(@, ChatMessage("assistant", <<"Error: ", e.message>>)),
                       !.fetch = NoFetch]
        ELSE [p EXCEPT !.messages = Append(@, ChatMessage("assistant", o.data.answer)),
                       !.loading = FALSE, !.fetch = NoFetch]

\* handleSubmit from the settled fetch to its end: the try block, the catch
\* and the finally
handleSubmit_Settle(p, o) ==
  LET e == TryBlock(o)
      content == IF e.thrown
                   THEN <<"Error: ", e.message, ". Please check the console for more details.">>
                   ELSE o.data.answer
  IN  [p EXCEPT !.messages = Append(@, ChatMessage("assistant", content)),
                !.loading = FALSE,
                !.fetch = NoFetch]

\* handleSubmit up to its await of the fetch
handleSubmit_Begin(p) ==
  IF IsBlank(p.question) THEN p
  ELSE LET currentQuestion == p.question
       IN  [p EXCEPT !.loading = TRUE,
                     !.question = <<>>,
                     !.messages = Append(@, ChatMessage("user", currentQuestion)),
                     !.fetch = FetchRequest(currentQuestion),
                     !.sent = @ + 1]

\* the visitor types into the input (disabled while loading)
PageType ==
  /\ ~page.loading
  /\ \E q \in PageQuestions : page' = [page EXCEPT !.question = q]
  /\ UNCHANGED <<handler, env, st, memory, logs, workload, raw, cleaned>>

\* the visitor submits the form (the button is disabled while loading)
PageSubmit ==
  /\ ~page.loading
  /\ page.sent < MaxSubmits
  /\ page' = handleSubmit_Begin(page)
  /\ UNCHANGED <<handler, env, st, memory, logs, workload, raw, cleaned>>

\* the fetch settles, in any of the ways it can
PageSettle ==
  /\ page.fetch.pending
  /\ \E o \in FetchOutcomes : page' = handleSubmit_Settle(page, o)
  /\ UNCHANGED <<handler, env, st, memory, logs, workload, raw, cleaned>>

\* the fetch settles with the response of the handler
PageReceive ==
  /\ page.fetch.pending
  /\ page.sent \in Req
  /\ Done(page.sent)
  /\ page' = handleSubmit_Settle(page, OutcomeOf(st[page.sent].resp))
  /\ UNCHANGED <<handler, env, st, memory, logs, workload, raw, cleaned>>

\* the page alone, its fetch settling in any way
InitPage ==
  /\ handler = "route"
  /\ env = EnvNames
  /\ st = <<>>
  /\ memory = <<>>
  /\ logs = {}
  /\ workload = "page"
  /\ page = IdlePage
  /\ raw = <<>>
  /\ cleaned = NotCleaned

NextPage == PageType \/ PageSubmit \/ PageSettle

\* a fetch settles in the end: it resolves with a response or rejects
SpecPage == InitPage /\ [][NextPage]_vars /\ WF_vars(PageSettle)

\* the page in front of the handler: the requests are the fetches of the page
InitPageServer ==
  /\ handler \in Handlers
  /\ env \in Envs
  /\ st = [r \in 1..MaxSubmits |-> IdleRequest]
  /\ memory = <<>>
  /\ logs = {}
  /\ workload = "page"
  /\ page = IdlePage
  /\ raw = <<>>
  /\ cleaned = NotCleaned

\* (a request of the page ends in the first step of either handler, so the
\* later steps of the handlers have no part in this workload)
NextPageServer ==
  \/ PageType
  \/ PageSubmit
  \/ \E r \in Req : P001Begin(r)
  \/ \E r \in Req : RouteBegin(r)
  \/ PageReceive

SpecPageServer == InitPageServer /\ [][NextPageServer]_vars

\* C17: a non-blank question submitted through the page produces a request
\* that passes the handler's credential check: the handler does not answer
\* it with 401, and the page does not show the error of a refused request
C17_PageRequestAuthorized ==
  /\ \A r \in Req : Done(r) => Status(r) # 401
  /\ \A i \in DOMAIN page.messages :
       page.messages[i].role = "assistant" =>
         \/ page.messages[i].content = <<>>
         \/ page.messages[i].content[1] # "Error: "

\* the messages of the page are the submitted questions, each followed by
\* its one assistant message, the last of them possibly still awaited
PageTranscript ==
  /\ page.loading <=> page.fetch.pending
  /\ Len(page.messages) = 2 * page.sent - (IF page.loading THEN 1 ELSE 0)
  /\ \A i \in DOMAIN page.messages :
       /\ page.messages[i].role = (IF i % 2 = 1 THEN "user" ELSE "assistant")
       /\ i % 2 = 1 => ~IsBlank(page.messages[i].content)

\* what one step of the page may do
PageStep ==
  /\ (~page.loading /\ IsBlank(page.question)) =>
       /\ page'.messages = page.messages
       /\ page'.loading = page.loading
       /\ page'.sent = page.sent
       /\ page'.fetch = page.fetch
  /\ page'.sent # page.sent =>
       /\ ~page.loading
       /\ ~IsBlank(page.question)
       /\ page'.sent = page.sent + 1
       /\ page'.messages = Append(page.messages, ChatMessage("user", page.question))
       /\ page'.loading
       /\ page'.fetch.pending
       /\ page'.fetch.body = JsonBody(TRUE, page.question)
  /\ page.loading =>
       \/ page' = page
       \/ /\ ~page'.loading
          /\ ~page'.fetch.pending
          /\ page'.sent = page.sent
          /\ Len(page'.messages) = Len(page.messages) + 1
          /\ SubSeq(page'.messages, 1, Len(page.messages)) = page.messages
          /\ page'.messages[Len(page'.messages)].role = "assistant"
  /\ page'.messages # page.messages => (page.loading \/ page'.sent # page.sent)

\* C18: a submit with a blank question changes nothing and sends no request;
\* a submit with a non-blank question appends the user message, sets loading
\* and sends the request; and however the fetch settles, exactly one
\* assistant message is appended after it and loading is reset, which
\* happens in the end
C18_SubmitCycle ==
  /\ []PageTranscript
  /\ [][PageStep]_vars
  /\ (page.loading ~> ~page.loading)

\* two submissions were answered: the first fetch came back without JSON,
\* the second with an answer
C18_Witness ==
  /\ ~page.loading
  /\ Len(page.messages) = 4
  /\ page.messages[1] = ChatMessage("user", <<"q1">>)
  /\ page.messages[2] =
       ChatMessage("assistant", <<"Error: ", "Expected JSON response but got",
                                  ". Please check the console for more details.">>)
  /\ page.messages[4] = ChatMessage("assistant", <<"a1">>)
====
